---- MODULE Spec2Model ----
(***************************************************************************)
(* Query & pagination engine of the buildings API.                         *)
(*                                                                         *)
(* Three entry surfaces reach the store:                                   *)
(*   "paginated"  BuildingsService.findAllPaginated (validate polygon at   *)
(*                the store, count query, data query, metadata);           *)
(*   "http"       BuildingsController.findAll -> validateQueryParameters   *)
(*                -> executeQuery (Promise.all of data and count);         *)
(*   "mcp_list", "mcp_geo"  BuildingsMcpHttpTool.get_buildings_list and    *)
(*                search_buildings_geospatial (data query, then count).    *)
(* The store is a table of rows; other clients may write to it between     *)
(* the queries of one request.                                             *)
(*                                                                         *)
(* Text values are sequences of symbols; optional values are sequences of  *)
(* length 0 (undefined / SQL NULL) or 1.                                   *)
(***************************************************************************)
EXTENDS Integers, Sequences, FiniteSets, TLC

VARIABLES store, nwrites, pc, path, query, inflight, events,
          countQ, dataQ, polyChecked, total, data, cntStore, datStore,
          result, error, logs, calls

vars == <<store, nwrites, pc, path, query, inflight, events,
          countQ, dataQ, polyChecked, total, data, cntStore, datStore,
          result, error, logs, calls>>

\* ------------------------------------------------------------------------
\* Bounds of the model
\* ------------------------------------------------------------------------
MaxWrites == 2
MaxLimitIn == 2
MaxOffsetIn == 2

\* ------------------------------------------------------------------------
\* Program constants
\* ------------------------------------------------------------------------
DefaultLimit == 20
DefaultOffset == 0
MinLimit == 1
MaxLimit == 100
MinCoordPairs == 4
ListLimit == 1

\* ------------------------------------------------------------------------
\* Optional values and JavaScript truthiness
\* ------------------------------------------------------------------------
None == <<>>
Some(v) == <<v>>
IsSome(o) == Len(o) = 1
Val(o) == o[1]

Min(a, b) == IF a < b THEN a ELSE b
Max(a, b) == IF a > b THEN a ELSE b

\* if (query.name): undefined and "" are both falsy
TruthyText(o) == IsSome(o) /\ Len(Val(o)) > 0
\* if (query.limit): undefined and 0 are both falsy
TruthyNum(o) == IsSome(o) /\ Val(o) # 0
\* query.limit ?? 20
OrElse(o, d) == IF IsSome(o) THEN Val(o) ELSE d
TextOf(o) == IF IsSome(o) THEN Val(o) ELSE <<>>

\* ------------------------------------------------------------------------
\* Text matching as the store evaluates it
\* ------------------------------------------------------------------------
Lower(c) == CASE c = "A" -> "a" [] c = "B" -> "b" [] OTHER -> c
LowerSeq(s) == [i \in 1..Len(s) |-> Lower(s[i])]

\* SQL LIKE: "%" matches any run of symbols, "_" matches any one symbol
RECURSIVE LikeMatch(_, _)
LikeMatch(p, s) ==
  IF p = <<>> THEN s = <<>>
  ELSE IF Head(p) = "%"
       THEN LikeMatch(Tail(p), s) \/ (s # <<>> /\ LikeMatch(p, Tail(s)))
       ELSE /\ s # <<>>
            /\ (Head(p) = "_" \/ Head(p) = Head(s))
            /\ LikeMatch(Tail(p), Tail(s))

\* value ILIKE pattern
ILike(s, p) == LikeMatch(LowerSeq(p), LowerSeq(s))

\* `%${value}%`
WrapWildcards(v) == <<"%">> \o v \o <<"%">>

\* ------------------------------------------------------------------------
\* WKT polygon text, as a sequence of lexical tokens
\* ------------------------------------------------------------------------
PolySquare == <<"POLYGON", "(", "(", "0", "0", ",", "2", "0", ",", "2", "2", ",",
                "0", "2", ",", "0", "0", ")", ")">>
PolyShort == <<"POLYGON", "(", "(", "0", "0", ",", "1", "1", ")", ")">>
\* POLYGON((0 0,2 0,2 2,0 2)): the ring is not closed
PolyOpen == <<"POLYGON", "(", "(", "0", "0", ",", "2", "0", ",", "2", "2", ",",
              "0", "2", ")", ")">>
\* POLYGON((0 0,2 0,2 x,0 2,0 0)): a coordinate is not a number
PolyNaN == <<"POLYGON", "(", "(", "0", "0", ",", "2", "0", ",", "2", "x", ",",
             "0", "2", ",", "0", "0", ")", ")">>
\* POLYGON((0 0,2 0,2 2x,0 2,0 0)): a coordinate starts with digits, then text
PolyPrefix == <<"POLYGON", "(", "(", "0", "0", ",", "2", "0", ",", "2", "2x", ",",
                "0", "2", ",", "0", "0", ")", ")">>
\* POLYGON((0 0,2 0,2 2,0 2,0 0): a closing parenthesis is missing
PolyUnbalanced == <<"POLYGON", "(", "(", "0", "0", ",", "2", "0", ",", "2", "2", ",",
                    "0", "2", ",", "0", "0", ")">>

Digits == {"0", "1", "2", "3"}
Num(t) == CASE t = "0" -> 0 [] t = "1" -> 1 [] t = "2" -> 2 [] OTHER -> 3

\* /^POLYGON\s*\(\s*\([^)]+\)\s*\)$/i
WktRegexTest(p) ==
  /\ Len(p) >= 6
  /\ p[1] \in {"POLYGON", "polygon"}
  /\ p[2] = "(" /\ p[3] = "("
  /\ p[Len(p) - 1] = ")" /\ p[Len(p)] = ")"
  /\ \A i \in 4..(Len(p) - 2) : p[i] # ")"

\* coordsMatch[1]
CoordsStr(p) == SubSeq(p, 4, Len(p) - 2)

\* coordsStr.split(',')
RECURSIVE SplitComma(_)
SplitComma(s) ==
  IF \A i \in 1..Len(s) : s[i] # ","
  THEN <<s>>
  ELSE LET k == CHOOSE i \in 1..Len(s) : s[i] = "," /\ \A j \in 1..(i - 1) : s[j] # ","
       IN  <<SubSeq(s, 1, k - 1)>> \o SplitComma(SubSeq(s, k + 1, Len(s)))

\* parseFloat reads the longest numeric prefix of its argument and ignores
\* what follows it; it yields NaN only when there is no such prefix
NumericPrefix == {"2x"}

\* !isNaN(parseFloat(coord)) && isFinite(parseFloat(coord))
ParseFloatOk(t) == t \in Digits \cup NumericPrefix

\* one coordinate pair: coords.length !== 2, then parseFloat of each value
PairErrors(pair) ==
  IF Len(pair) # 2 THEN <<"INVALID_COORDINATE_PAIR">>
  ELSE (IF ParseFloatOk(pair[1]) THEN <<>> ELSE <<"INVALID_COORDINATE_VALUE">>)
       \o (IF ParseFloatOk(pair[2]) THEN <<>> ELSE <<"INVALID_COORDINATE_VALUE">>)

RECURSIVE AllPairErrors(_)
AllPairErrors(pairs) ==
  IF pairs = <<>> THEN <<>>
  ELSE PairErrors(Head(pairs)) \o AllPairErrors(Tail(pairs))

ValidateWktPolygon_Generic(p) ==
  IF Len(p) = 0 THEN <<"REQUIRED">>
  ELSE IF ~WktRegexTest(p) THEN <<"INVALID_WKT_FORMAT">>
  ELSE LET pairs == SplitComma(CoordsStr(p)) IN
       IF \/ Len(pairs) < MinCoordPairs
          \/ AllPairErrors(pairs) # <<>>
          \/ pairs[1] # pairs[Len(pairs)]
       THEN <<"INVALID_WKT_FORMAT">>
       ELSE <<>>

\* ValidationErrorHandler.validateWktPolygon: the error codes it collects
ValidateWktPolygon(p) ==
  IF Len(p) = 0 THEN <<"REQUIRED">>
  ELSE IF ~WktRegexTest(p) THEN <<"INVALID_WKT_FORMAT">>
  ELSE LET pairs == SplitComma(CoordsStr(p)) IN
       IF Len(pairs) < MinCoordPairs THEN <<"INSUFFICIENT_COORDINATES">>
       ELSE LET errs == AllPairErrors(pairs) IN
            IF errs = <<>> /\ pairs[1] # pairs[Len(pairs)]
            THEN <<"UNCLOSED_POLYGON">>
            ELSE errs

\* The store's ST_GeomFromText($1, 4326): parses a closed ring of at least
\* four numeric pairs, and raises a geometry error for anything else
StGeomFromTextOk(p) ==
  /\ WktRegexTest(p)
  /\ LET pairs == SplitComma(CoordsStr(p)) IN
       /\ Len(pairs) >= MinCoordPairs
       /\ \A i \in 1..Len(pairs) :
            Len(pairs[i]) = 2 /\ pairs[i][1] \in Digits /\ pairs[i][2] \in Digits
       /\ pairs[1] = pairs[Len(pairs)]

\* ST_Intersects(point, polygon) for the axis-aligned rings of the inputs
StIntersects(pt, p) ==
  LET pairs == SplitComma(CoordsStr(p))
      xs == {Num(pairs[i][1]) : i \in 1..Len(pairs)}
      ys == {Num(pairs[i][2]) : i \in 1..Len(pairs)}
  IN  /\ \E a \in xs : a <= pt[1]
      /\ \E a \in xs : pt[1] <= a
      /\ \E b \in ys : b <= pt[2]
      /\ \E b \in ys : pt[2] <= b

\* ------------------------------------------------------------------------
\* The table public.buildings
\* ------------------------------------------------------------------------
Residential == <<"residential">>
Commercial == <<"commercial">>
ValidTypes == {<<"residential">>, <<"commercial">>, <<"industrial">>, <<"mixed">>, <<"other">>}

BaseRows == {1, 2, 3}
VolatileRows == {4, 5}
BulkRows == 101..(101 + DefaultLimit)

Row(id) ==
  CASE id = 1 -> [visible |-> TRUE, cadastral_code |-> <<"C", "1">>,
                  municipality_code |-> <<"M", "1">>, building_type |-> Residential,
                  name |-> Some(<<"A", "b">>), address |-> <<"a", "b">>,
                  geom |-> Some(<<1, 1>>), created_at |-> 5]
    [] id = 2 -> [visible |-> TRUE, cadastral_code |-> <<"C", "1">>,
                  municipality_code |-> <<"M", "2">>, building_type |-> Commercial,
                  name |-> None, address |-> <<"b">>,
                  geom |-> Some(<<3, 3>>), created_at |-> 4]
    [] id = 3 -> [visible |-> FALSE, cadastral_code |-> <<"C", "1">>,
                  municipality_code |-> <<"M", "1">>, building_type |-> Residential,
                  name |-> Some(<<"a", "b">>), address |-> <<"a", "b">>,
                  geom |-> Some(<<1, 1>>), created_at |-> 3]
    [] id = 4 -> [visible |-> TRUE, cadastral_code |-> <<"C", "1">>,
                  municipality_code |-> <<"M", "1">>, building_type |-> Residential,
                  name |-> Some(<<"a", "B">>), address |-> <<"a">>,
                  geom |-> Some(<<1, 1>>), created_at |-> 5]
    [] id = 5 -> [visible |-> TRUE, cadastral_code |-> <<"C", "2">>,
                  municipality_code |-> <<"M", "1">>, building_type |-> Residential,
                  name |-> Some(<<"b">>), address |-> <<"B", "a">>,
                  geom |-> None, created_at |-> 6]
    [] OTHER  -> [visible |-> TRUE, cadastral_code |-> <<"C", "2">>,
                  municipality_code |-> <<"M", "1">>, building_type |-> Residential,
                  name |-> Some(<<"a", "b">>), address |-> <<"a", "b">>,
                  geom |-> Some(<<1, 1>>), created_at |-> id]

InitialStores == {{}, BaseRows, BaseRows \cup BulkRows}

\* ------------------------------------------------------------------------
\* SqlQueryBuilder: an ordered list of predicate fragments with their
\* parameter values, plus ordering and window
\* ------------------------------------------------------------------------
FVisible == "visible = $"
FCadastral == "cadastral_code = $"
FMunicipality == "municipality_code = $"
FType == "building_type = $"
FName == "name ILIKE $"
FAddress == "address ILIKE $"
FPolygon == "ST_Intersects(geom, ST_GeomFromText($, 4326))"
PTrue == <<"true">>
OrderCreatedDesc == "created_at DESC"

\* the callers of the service that run at the same time
Clients == {"a", "b"}

QbCreate_Reused(sel) ==
  LET built == {c \in Clients : IsSome(calls[c].countQ)} IN
  IF built = {}
  THEN [select |-> sel, where |-> <<>>, params |-> <<>>,
        order |-> "", limit |-> None, offset |-> None]
  ELSE LET last == Val(calls[CHOOSE c \in built : TRUE].countQ)
       IN  [select |-> sel, where |-> last.where, params |-> last.params,
            order |-> "", limit |-> None, offset |-> None]

QbCreate(sel) ==
  [select |-> sel, where |-> <<>>, params |-> <<>>,
   order |-> "", limit |-> None, offset |-> None]

QbAndWhere(qb, frag, param) ==
  [qb EXCEPT !.where = Append(@, frag), !.params = Append(@, param)]

QbAndWhereIf(cond, qb, frag, param) ==
  IF cond THEN QbAndWhere(qb, frag, param) ELSE qb

QbWindow(qb, ord, lim, off) ==
  [qb EXCEPT !.order = ord, !.limit = lim, !.offset = off]

\* ------------------------------------------------------------------------
\* BuildingsService with findAllPaginated
\* ------------------------------------------------------------------------
ApplyFilterConditions_Present(qb, q) ==
  LET b1 == QbAndWhereIf(IsSome(q.cadastral_code), qb, FCadastral, TextOf(q.cadastral_code))
      b2 == QbAndWhereIf(IsSome(q.municipality_code), b1, FMunicipality, TextOf(q.municipality_code))
      b3 == QbAndWhereIf(IsSome(q.building_type), b2, FType, TextOf(q.building_type))
      b4 == QbAndWhereIf(TruthyText(q.name), b3, FName, WrapWildcards(TextOf(q.name)))
      b5 == QbAndWhereIf(TruthyText(q.address), b4, FAddress, WrapWildcards(TextOf(q.address)))
  IN  QbAndWhereIf(TruthyText(q.polygon), b5, FPolygon, TextOf(q.polygon))

ApplyFilterConditions(qb, q) ==
  LET b1 == QbAndWhereIf(TruthyText(q.cadastral_code), qb, FCadastral, TextOf(q.cadastral_code))
      b2 == QbAndWhereIf(TruthyText(q.municipality_code), b1, FMunicipality, TextOf(q.municipality_code))
      b3 == QbAndWhereIf(TruthyText(q.building_type), b2, FType, TextOf(q.building_type))
      b4 == QbAndWhereIf(TruthyText(q.name), b3, FName, WrapWildcards(TextOf(q.name)))
      b5 == QbAndWhereIf(TruthyText(q.address), b4, FAddress, WrapWildcards(TextOf(q.address)))
  IN  QbAndWhereIf(TruthyText(q.polygon), b5, FPolygon, TextOf(q.polygon))

ExecuteCountQuery_Unfiltered(q) ==
  QbAndWhere(QbCreate("COUNT(*)"), FVisible, PTrue)

ExecuteCountQuery_Shared(q) ==
  ApplyFilterConditions(QbAndWhere(QbCreate_Reused("COUNT(*)"), FVisible, PTrue), q)

ExecuteCountQuery(q) ==
  ApplyFilterConditions(QbAndWhere(QbCreate("COUNT(*)"), FVisible, PTrue), q)

ExecutePaginatedDataQuery_NoVisible(q) ==
  QbWindow(ApplyFilterConditions(QbCreate("rows"), q), OrderCreatedDesc, q.limit, q.offset)

ExecutePaginatedDataQuery_NoOffset(q) ==
  QbWindow(ApplyFilterConditions(QbAndWhere(QbCreate("rows"), FVisible, PTrue), q),
           OrderCreatedDesc, q.limit, None)

ExecutePaginatedDataQuery(q) ==
  QbWindow(ApplyFilterConditions(QbAndWhere(QbCreate("rows"), FVisible, PTrue), q),
           OrderCreatedDesc, q.limit, q.offset)

CalculatePaginationMeta_Inclusive(tot, limit, offset) ==
  [total |-> tot, limit |-> limit, offset |-> offset,
   hasNext |-> offset + limit <= tot,
   hasPrevious |-> offset > 0]

CalculatePaginationMeta(tot, limit, offset) ==
  [total |-> tot, limit |-> limit, offset |-> offset,
   hasNext |-> offset + limit < tot,
   hasPrevious |-> offset > 0]

\* ------------------------------------------------------------------------
\* BuildingsService with findAll / findByPolygon / countTotal /
\* countTotalByPolygon
\* ------------------------------------------------------------------------
TextFiltersB_Twice(qb, q) ==
  LET b1 == QbAndWhereIf(TruthyText(q.name), qb, FName, WrapWildcards(TextOf(q.name)))
      b2 == QbAndWhereIf(TruthyText(q.building_type), b1, FType, TextOf(q.building_type))
      b3 == QbAndWhereIf(TruthyText(q.address), b2, FAddress, WrapWildcards(TextOf(q.address)))
      b4 == QbAndWhereIf(TruthyText(q.cadastral_code), b3, FCadastral, TextOf(q.cadastral_code))
      b5 == QbAndWhereIf(TruthyText(q.municipality_code), b4, FMunicipality, TextOf(q.municipality_code))
  IN  QbAndWhereIf(TruthyText(q.building_type), b5, FType, TextOf(q.building_type))

TextFiltersB(qb, q) ==
  LET b1 == QbAndWhereIf(TruthyText(q.name), qb, FName, WrapWildcards(TextOf(q.name)))
      b2 == QbAndWhereIf(TruthyText(q.building_type), b1, FType, TextOf(q.building_type))
      b3 == QbAndWhereIf(TruthyText(q.address), b2, FAddress, WrapWildcards(TextOf(q.address)))
      b4 == QbAndWhereIf(TruthyText(q.cadastral_code), b3, FCadastral, TextOf(q.cadastral_code))
  IN  QbAndWhereIf(TruthyText(q.municipality_code), b4, FMunicipality, TextOf(q.municipality_code))

FindAll_NoOffset(q) ==
  QbWindow(TextFiltersB(QbAndWhere(QbCreate("rows"), FVisible, PTrue), q),
           OrderCreatedDesc, Some(OrElse(q.limit, DefaultLimit)), None)

FindAll(q) ==
  QbWindow(TextFiltersB(QbAndWhere(QbCreate("rows"), FVisible, PTrue), q),
           OrderCreatedDesc,
           Some(OrElse(q.limit, DefaultLimit)),
           Some(OrElse(q.offset, DefaultOffset)))

CountTotal(q) ==
  TextFiltersB(QbAndWhere(QbCreate("COUNT(*)"), FVisible, PTrue), q)

FindByPolygon(q) ==
  QbWindow(TextFiltersB(QbAndWhere(QbAndWhere(QbCreate("rows"), FVisible, PTrue),
                                   FPolygon, TextOf(q.polygon)), q),
           OrderCreatedDesc,
           IF TruthyNum(q.limit) THEN q.limit ELSE None,
           IF TruthyNum(q.offset) THEN q.offset ELSE None)

CountTotalByPolygon_NoText(q) ==
  QbAndWhere(QbAndWhere(QbCreate("COUNT(*)"), FVisible, PTrue), FPolygon, TextOf(q.polygon))

CountTotalByPolygon(q) ==
  TextFiltersB(QbAndWhere(QbAndWhere(QbCreate("COUNT(*)"), FVisible, PTrue),
                          FPolygon, TextOf(q.polygon)), q)

ControllerPaginationMeta_Clamped(q, totalCount) ==
  LET limit == OrElse(q.limit, DefaultLimit)
      offset == Min(OrElse(q.offset, DefaultOffset), Max(0, totalCount - 1))
  IN  [total |-> totalCount, limit |-> limit, offset |-> offset,
       hasNext |-> offset + limit < totalCount,
       hasPrevious |-> offset > 0]

\* BuildingsService.findAll without pagination: visible = true, .limit(1),
\* the filters, ORDER BY created_at DESC
FindAllList(q) ==
  QbWindow(ApplyFilterConditions(QbAndWhere(QbCreate("rows"), FVisible, PTrue), q),
           OrderCreatedDesc, Some(ListLimit), None)

\* BuildingsController.calculatePaginationMeta
ControllerPaginationMeta(q, totalCount) ==
  LET limit == OrElse(q.limit, DefaultLimit)
      offset == OrElse(q.offset, DefaultOffset)
  IN  [total |-> totalCount, limit |-> limit, offset |-> offset,
       hasNext |-> offset + limit < totalCount,
       hasPrevious |-> offset > 0]

\* BuildingsService.calculatePaginationMeta(query, total) used by the MCP tool
ServicePaginationMeta(q, totalCount) ==
  LET limit == OrElse(q.limit, DefaultLimit)
      offset == OrElse(q.offset, DefaultOffset)
  IN  [total |-> totalCount, limit |-> limit, offset |-> offset,
       hasNext |-> offset + limit < totalCount,
       hasPrevious |-> offset > 0]

\* ------------------------------------------------------------------------
\* The store executing a query
\* ------------------------------------------------------------------------
FragHolds(frag, param, row) ==
  CASE frag = FVisible      -> row.visible = (param = PTrue)
    [] frag = FCadastral    -> row.cadastral_code = param
    [] frag = FMunicipality -> row.municipality_code = param
    [] frag = FType         -> row.building_type = param
    [] frag = FName         -> IsSome(row.name) /\ ILike(Val(row.name), param)
    [] frag = FAddress      -> ILike(row.address, param)
    [] frag = FPolygon      -> IsSome(row.geom) /\ StIntersects(Val(row.geom), param)
    [] OTHER                -> FALSE

\* WHERE f1 AND f2 AND ...
Matches(q, r) ==
  \A i \in 1..Len(q.where) : FragHolds(q.where[i], q.params[i], Row(r))

\* a query whose geometry text does not parse raises at the store
QueryRaises(q) ==
  \E i \in 1..Len(q.where) : q.where[i] = FPolygon /\ ~StGeomFromTextOk(q.params[i])

CountRows(q, S) == Cardinality({r \in S : Matches(q, r)})

\* ORDER BY created_at DESC; rows with equal created_at come in any order
RECURSIVE Orderings(_)
Orderings(S) ==
  IF S = {} THEN {<<>>}
  ELSE LET top == {m \in S : \A o \in S : Row(o).created_at <= Row(m).created_at}
       IN  UNION {{<<m>> \o t : t \in Orderings(S \ {m})} : m \in top}

\* OFFSET off LIMIT lim
Page(rows, lim, off) ==
  LET from == OrElse(off, 0) + 1
      to == IF IsSome(lim) THEN Min(Len(rows), OrElse(off, 0) + Val(lim)) ELSE Len(rows)
  IN  IF from > to THEN <<>> ELSE SubSeq(rows, from, to)

SelectRows(q, S) ==
  {Page(o, q.limit, q.offset) : o \in Orderings({r \in S : Matches(q, r)})}

\* ------------------------------------------------------------------------
\* Requests
\* ------------------------------------------------------------------------
NoFilter ==
  [cadastral_code |-> None, municipality_code |-> None, building_type |-> None,
   name |-> None, address |-> None]

FilterInputs ==
  { NoFilter,
    [NoFilter EXCEPT !.cadastral_code = Some(<<>>)],
    [NoFilter EXCEPT !.cadastral_code = Some(<<"C", "1">>)],
    [NoFilter EXCEPT !.name = Some(<<"a", "B">>)],
    [NoFilter EXCEPT !.building_type = Some(Residential), !.name = Some(<<"_">>)],
    [NoFilter EXCEPT !.building_type = Some(Residential), !.address = Some(<<"B">>)],
    [NoFilter EXCEPT !.cadastral_code = Some(<<"C", "1">>),
                     !.municipality_code = Some(<<"M", "1">>)],
    [NoFilter EXCEPT !.building_type = Some(<<"villa">>)] }

MalformedPolygons == {PolyShort, PolyOpen, PolyNaN, PolyPrefix, PolyUnbalanced}
PolygonInputs == {None, Some(PolySquare)}
LimitInputs == {None} \cup {Some(n) : n \in 0..MaxLimitIn}
OffsetInputs == {None} \cup {Some(n) : n \in 1..MaxOffsetIn}

MkQuery(f, poly, lim, off) ==
  [cadastral_code |-> f.cadastral_code, municipality_code |-> f.municipality_code,
   building_type |-> f.building_type, name |-> f.name, address |-> f.address,
   polygon |-> poly, limit |-> lim, offset |-> off]

NoQuery == MkQuery(NoFilter, None, None, None)

Paths == {"paginated", "http", "mcp_list", "mcp_geo"}

\* QueryBuildingsPaginatedSchema: limit int 1..100 default 20, offset >= 0 default 0
PaginatedDtoOk(raw) ==
  /\ OrElse(raw.limit, DefaultLimit) >= MinLimit
  /\ OrElse(raw.limit, DefaultLimit) <= MaxLimit
  /\ OrElse(raw.offset, DefaultOffset) >= 0

PaginatedDtoParse(raw) ==
  [raw EXCEPT !.limit = Some(OrElse(raw.limit, DefaultLimit)),
              !.offset = Some(OrElse(raw.offset, DefaultOffset))]

\* ValidationErrorHandler.validatePaginationParameters
ValidatePaginationParameters(limit, offset) ==
  (IF IsSome(limit) /\ (Val(limit) < MinLimit \/ Val(limit) > MaxLimit)
   THEN <<"limit">> ELSE <<>>)
  \o (IF IsSome(offset) /\ Val(offset) < 0 THEN <<"offset">> ELSE <<>>)

\* BuildingsController.validateTextFilters
TextLengthError(o, maxLen) == IsSome(o) /\ (Len(Val(o)) = 0 \/ Len(Val(o)) > maxLen)

ValidateTextFilters(q) ==
  (IF TextLengthError(q.name, 100) THEN <<"name">> ELSE <<>>)
  \o (IF IsSome(q.building_type) /\ Val(q.building_type) \notin ValidTypes
      THEN <<"building_type">> ELSE <<>>)
  \o (IF TextLengthError(q.address, 200) THEN <<"address">> ELSE <<>>)
  \o (IF TextLengthError(q.cadastral_code, 50) THEN <<"cadastral_code">> ELSE <<>>)
  \o (IF TextLengthError(q.municipality_code, 50) THEN <<"municipality_code">> ELSE <<>>)

ValidateQueryParameters_SkipText(q) ==
  IF ValidatePaginationParameters(q.limit, q.offset) # <<>> THEN "validation:pagination"
  ELSE IF TruthyText(q.polygon) /\ ValidateWktPolygon(Val(q.polygon)) # <<>>
       THEN "validation:polygon"
  ELSE "ok"

\* BuildingsController.validateQueryParameters: the first failing check, or "ok"
ValidateQueryParameters(q) ==
  IF ValidatePaginationParameters(q.limit, q.offset) # <<>> THEN "validation:pagination"
  ELSE IF TruthyText(q.polygon) /\ ValidateWktPolygon(Val(q.polygon)) # <<>>
       THEN "validation:polygon"
  ELSE IF ValidateTextFilters(q) # <<>> THEN "validation:text"
  ELSE "ok"

\* ------------------------------------------------------------------------
\* State machine
\* ------------------------------------------------------------------------
\* a caller outside findAllPaginated
IdleCall ==
  [pc |-> "idle", query |-> NoQuery, countQ |-> None, dataQ |-> None,
   total |-> None, result |-> None, error |-> ""]

Init ==
  /\ store \in InitialStores
  /\ nwrites = 0
  /\ pc = "idle"
  /\ path = ""
  /\ query = NoQuery
  /\ inflight = {}
  /\ events = <<>>
  /\ logs = <<>>
  /\ calls = [c \in Clients |-> IdleCall]
  /\ countQ = None
  /\ dataQ = None
  /\ polyChecked = FALSE
  /\ total = None
  /\ data = None
  /\ cntStore = {}
  /\ datStore = {}
  /\ result = None
  /\ error = ""

Issue(kind) == <<"issue", kind>>
Done(kind) == <<"done", kind>>

\* --- log events ------------------------------------------------------------
\* the log events of the call in progress that carry the query or the
\* polygon, each with the polygon as it is written to the log
WktPlaceholder == <<"[WKT_POLYGON]">>
LogEvent(msg, polygon) == <<msg, polygon>>

\* BuildingsController.sanitizeQueryForLogging
SanitizeQueryForLogging(q) ==
  IF TruthyText(q.polygon) THEN [q EXCEPT !.polygon = Some(WktPlaceholder)] ELSE q

\* the trace written on entry: findAllPaginated logs the query as it is, the
\* controller logs the sanitized query, the MCP tools have no logger
EntryLogs(p, q) ==
  CASE p = "paginated" -> <<LogEvent("findAllPaginated()", q.polygon)>>
    [] p = "http"      -> <<LogEvent("findAll()", SanitizeQueryForLogging(q).polygon)>>
    [] OTHER           -> <<>>

\* the traces written by the service method that sends statement k
QueryLogs(p, q, k) ==
  IF p = "paginated"
  THEN CASE k = "validate" -> <<LogEvent("validateWktPolygon()", q.polygon)>>
         [] k = "count"    -> <<LogEvent("executeCountQuery()", q.polygon),
                               LogEvent("applyFilterConditions()", q.polygon)>>
         [] OTHER          -> <<LogEvent("executePaginatedDataQuery()", q.polygon),
                               LogEvent("applyFilterConditions()", q.polygon)>>
  ELSE IF TruthyText(q.polygon)
       THEN IF k = "data"
            THEN <<LogEvent("findByPolygon()", Some(WktPlaceholder))>>
            ELSE <<LogEvent("countTotalByPolygon()", Some(WktPlaceholder))>>
       ELSE IF k = "data"
            THEN <<LogEvent("findAll()", q.polygon)>>
            ELSE <<LogEvent("countTotal()", q.polygon)>>

RECURSIVE IssueLogs(_, _, _)
IssueLogs(p, q, ks) ==
  IF ks = <<>> THEN <<>> ELSE QueryLogs(p, q, Head(ks)) \o IssueLogs(p, q, Tail(ks))

\* the error logs of the catch blocks that carry the query or the polygon
FailLogs(p, q, kind, why) ==
  CASE p = "paginated" ->
         IF kind = "validate"
         THEN <<LogEvent("WKT polygon validation failed", q.polygon)>>
         ELSE IF why = "geometry"
              THEN <<LogEvent("invalid WKT polygon format provided in paginated query",
                              q.polygon)>>
              ELSE <<>>
    [] p = "http" ->
         <<LogEvent("failed to retrieve buildings", SanitizeQueryForLogging(q).polygon)>>
    [] OTHER -> <<>>

\* a call rejected before any statement: the controller has written its entry
\* trace and writes its error log; the other surfaces have logged nothing
RejectLogs(p, q) ==
  IF p = "http"
  THEN EntryLogs(p, q)
       \o <<LogEvent("failed to retrieve buildings", SanitizeQueryForLogging(q).polygon)>>
  ELSE <<>>

Reject(p, q, why) ==
  /\ pc' = "failed"
  /\ path' = p
  /\ query' = q
  /\ error' = why
  /\ logs' = RejectLogs(p, q)
  /\ UNCHANGED calls
  /\ UNCHANGED <<store, nwrites, inflight, events, countQ, dataQ, polyChecked,
                 total, data, cntStore, datStore, result>>

\* --- the order in which each surface issues its store queries ------------
\* k is "start" or the query that has just completed; the value is the list
\* of queries the caller issues next

PaginatedFlow_NoValidate(q, k) ==
  CASE k = "start" -> <<"count">>
    [] k = "count" -> <<"data">>
    [] OTHER       -> <<>>

PaginatedFlow_Concurrent(q, k) ==
  CASE k = "start"    -> IF TruthyText(q.polygon) THEN <<"validate">> ELSE <<"count", "data">>
    [] k = "validate" -> <<"count", "data">>
    [] OTHER          -> <<>>

\* findAllPaginated: validateWktPolygon if a polygon is given, then
\* executeCountQuery, then executePaginatedDataQuery
PaginatedFlow(q, k) ==
  CASE k = "start"    -> IF TruthyText(q.polygon) THEN <<"validate">> ELSE <<"count">>
    [] k = "validate" -> <<"count">>
    [] k = "count"    -> <<"data">>
    [] OTHER          -> <<>>

\* executeQuery: Promise.all([findAll / findByPolygon, countTotal / countTotalByPolygon])
HttpFlow(q, k) == IF k = "start" THEN <<"data", "count">> ELSE <<>>

\* MCP tools: await findAll / findByPolygon, then await countTotal / countTotalByPolygon
McpFlow(q, k) ==
  CASE k = "start" -> <<"data">>
    [] k = "data"  -> <<"count">>
    [] OTHER       -> <<>>

Flow(p, q, k) ==
  CASE p = "paginated" -> PaginatedFlow(q, k)
    [] p = "http"      -> HttpFlow(q, k)
    [] OTHER           -> McpFlow(q, k)

CountQueryFor(p, q) ==
  CASE p = "paginated" -> ExecuteCountQuery(q)
    [] p = "http"      -> IF TruthyText(q.polygon) THEN CountTotalByPolygon(q) ELSE CountTotal(q)
    [] p = "mcp_geo"   -> CountTotalByPolygon(q)
    [] OTHER           -> CountTotal(q)

DataQueryFor(p, q) ==
  CASE p = "paginated" -> ExecutePaginatedDataQuery(q)
    [] p = "http"      -> IF TruthyText(q.polygon) THEN FindByPolygon(q) ELSE FindAll(q)
    [] p = "mcp_geo"   -> FindByPolygon(q)
    [] OTHER           -> FindAll(q)

\* the metadata each surface attaches to the page
MetaFor(p, q, tot) ==
  CASE p = "paginated" -> CalculatePaginationMeta(tot, Val(q.limit), Val(q.offset))
    [] p = "http"      -> ControllerPaginationMeta(q, tot)
    [] OTHER           -> ServicePaginationMeta(q, tot)

Range(s) == {s[i] : i \in 1..Len(s)}
IssueEvents(ks) == [i \in 1..Len(ks) |-> Issue(ks[i])]

\* the handler runs up to its first await
Start(p, q, checked) ==
  LET ks == Flow(p, q, "start") IN
  /\ pc' = "running"
  /\ path' = p
  /\ query' = q
  /\ polyChecked' = checked
  /\ inflight' = Range(ks)
  /\ events' = IssueEvents(ks)
  /\ logs' = EntryLogs(p, q) \o IssueLogs(p, q, ks)
  /\ UNCHANGED calls
  /\ countQ' = IF "count" \in Range(ks) THEN Some(CountQueryFor(p, q)) ELSE None
  /\ dataQ' = IF "data" \in Range(ks) THEN Some(DataQueryFor(p, q)) ELSE None
  /\ UNCHANGED <<store, nwrites, total, data, cntStore, datStore, result, error>>

Resume_Recount(k, tot, rows) ==
  LET ks == Flow(path, query, k)
      rest == (inflight \ {k}) \cup Range(ks)
  IN  /\ inflight' = rest
      /\ events' = events \o <<Done(k)>> \o IssueEvents(ks)
      /\ logs' = logs \o IssueLogs(path, query, ks)
      /\ UNCHANGED calls
      /\ countQ' = IF "count" \in Range(ks) THEN Some(CountQueryFor(path, query)) ELSE countQ
      /\ dataQ' = IF "data" \in Range(ks) THEN Some(DataQueryFor(path, query)) ELSE dataQ
      /\ IF rest = {}
         THEN /\ pc' = "done"
              /\ result' = Some([records |-> Val(rows),
                                 meta |-> MetaFor(path, query,
                                                  CountRows(Val(countQ), store))])
         ELSE UNCHANGED <<pc, result>>

\* query k has completed: the caller issues what follows it, or, when nothing
\* is left in flight, computes the metadata and returns the page
Resume(k, tot, rows) ==
  LET ks == Flow(path, query, k)
      rest == (inflight \ {k}) \cup Range(ks)
  IN  /\ inflight' = rest
      /\ events' = events \o <<Done(k)>> \o IssueEvents(ks)
      /\ logs' = logs \o IssueLogs(path, query, ks)
      /\ UNCHANGED calls
      /\ countQ' = IF "count" \in Range(ks) THEN Some(CountQueryFor(path, query)) ELSE countQ
      /\ dataQ' = IF "data" \in Range(ks) THEN Some(DataQueryFor(path, query)) ELSE dataQ
      /\ IF rest = {}
         THEN /\ pc' = "done"
              /\ result' = Some([records |-> Val(rows),
                                 meta |-> MetaFor(path, query, Val(tot))])
         ELSE UNCHANGED <<pc, result>>

Failed(kind) == <<"fail", kind>>

Fail_Retry(kind, why) ==
  /\ events' = events \o <<Failed(kind), Issue(kind)>>
  /\ UNCHANGED <<store, nwrites, pc, path, query, inflight, countQ, dataQ,
                 polyChecked, total, data, cntStore, datStore, result, error, logs,
                 calls>>

Fail_Tagged(kind, why) ==
  /\ pc' = "failed"
  /\ error' = kind
  /\ inflight' = {}
  /\ events' = events \o <<Failed(kind)>>
  /\ logs' = logs \o FailLogs(path, query, kind, why)
  /\ UNCHANGED calls
  /\ UNCHANGED <<store, nwrites, path, query, countQ, dataQ, polyChecked,
                 total, data, cntStore, datStore, result>>

\* query kind rejects: the handler's catch block rethrows the error it caught
\* and the call ends; nothing is issued again
Fail(kind, why) ==
  /\ pc' = "failed"
  /\ error' = why
  /\ inflight' = {}
  /\ events' = events \o <<Failed(kind)>>
  /\ logs' = logs \o FailLogs(path, query, kind, why)
  /\ UNCHANGED calls
  /\ UNCHANGED <<store, nwrites, path, query, countQ, dataQ, polyChecked,
                 total, data, cntStore, datStore, result>>

\* request at the paginated endpoint: the DTO is parsed, then findAllPaginated
ReceivePaginated(raw) ==
  /\ pc = "idle"
  /\ IF ~PaginatedDtoOk(raw)
     THEN Reject("paginated", raw, "validation:pagination")
     ELSE Start("paginated", PaginatedDtoParse(raw), FALSE)

\* BuildingsController.findAll: validateQueryParameters, then executeQuery
ReceiveHttp(raw) ==
  /\ pc = "idle"
  /\ IF ValidateQueryParameters(raw) # "ok"
     THEN Reject("http", raw, ValidateQueryParameters(raw))
     ELSE Start("http", raw, TruthyText(raw.polygon))

\* BuildingsMcpHttpTool.get_buildings_list
ReceiveMcpList(raw) ==
  /\ pc = "idle"
  /\ raw.polygon = None
  /\ Start("mcp_list", raw, FALSE)

\* BuildingsMcpHttpTool.search_buildings_geospatial
ReceiveMcpGeo(raw) ==
  /\ pc = "idle"
  /\ IF ~TruthyText(raw.polygon)
     THEN Reject("mcp_geo", raw, "validation:polygon-required")
     ELSE Start("mcp_geo", raw, FALSE)

\* BuildingsService.validateWktPolygon: SELECT ST_GeomFromText($1, 4326) IS NOT NULL
\* any rejection, a store failure included, is rethrown as an invalid polygon
DbValidate(fail) ==
  /\ pc = "running"
  /\ "validate" \in inflight
  /\ IF fail \/ ~StGeomFromTextOk(Val(query.polygon))
     THEN Fail("validate", "invalid_wkt")
     ELSE /\ polyChecked' = TRUE
          /\ Resume("validate", total, data)
          /\ UNCHANGED <<store, nwrites, path, query, total, data, cntStore,
                         datStore, error>>

\* the store runs the count query; the caller resumes
DbCount(fail) ==
  /\ pc = "running"
  /\ "count" \in inflight
  /\ IF fail THEN Fail("count", "store")
     ELSE IF QueryRaises(Val(countQ)) THEN Fail("count", "geometry")
     ELSE LET tot == CountRows(Val(countQ), store) IN
          /\ total' = Some(tot)
          /\ cntStore' = store
          /\ Resume("count", Some(tot), data)
          /\ UNCHANGED <<store, nwrites, path, query, polyChecked, data,
                         datStore, error>>

\* the store runs the data query; the caller resumes
DbData(fail) ==
  /\ pc = "running"
  /\ "data" \in inflight
  /\ IF fail THEN Fail("data", "store")
     ELSE IF QueryRaises(Val(dataQ)) THEN Fail("data", "geometry")
     ELSE \E rows \in SelectRows(Val(dataQ), store) :
          /\ data' = Some(rows)
          /\ datStore' = store
          /\ Resume("data", total, Some(rows))
          /\ UNCHANGED <<store, nwrites, path, query, polyChecked, total,
                         cntStore, error>>

\* another client inserts a row
StoreInsert(r) ==
  /\ nwrites < MaxWrites
  /\ r \notin store
  /\ store' = store \cup {r}
  /\ nwrites' = nwrites + 1
  /\ UNCHANGED <<pc, path, query, inflight, events, countQ, dataQ, polyChecked,
                 total, data, cntStore, datStore, result, error, logs, calls>>

\* another client deletes a row
StoreDelete(r) ==
  /\ nwrites < MaxWrites
  /\ r \in store
  /\ store' = store \ {r}
  /\ nwrites' = nwrites + 1
  /\ UNCHANGED <<pc, path, query, inflight, events, countQ, dataQ, polyChecked,
                 total, data, cntStore, datStore, result, error, logs, calls>>

\* the response is sent and the per-request objects are discarded
Respond ==
  /\ pc \in {"done", "failed"}
  /\ pc' = "idle"
  /\ path' = ""
  /\ query' = NoQuery
  /\ inflight' = {}
  /\ events' = <<>>
  /\ logs' = <<>>
  /\ UNCHANGED calls
  /\ countQ' = None
  /\ dataQ' = None
  /\ polyChecked' = FALSE
  /\ total' = None
  /\ data' = None
  /\ cntStore' = {}
  /\ datStore' = {}
  /\ result' = None
  /\ error' = ""
  /\ UNCHANGED <<store, nwrites>>

\* requests with a well-formed polygon or none, and requests with a malformed
\* polygon, alone or next to an invalid building_type or an invalid limit
RawQueries ==
  {MkQuery(f, poly, lim, off) :
     f \in FilterInputs, poly \in PolygonInputs, lim \in LimitInputs, off \in OffsetInputs}
  \cup
  {MkQuery(f, Some(p), lim, None) :
     f \in {NoFilter, [NoFilter EXCEPT !.building_type = Some(<<"villa">>)]},
     p \in MalformedPolygons, lim \in {None, Some(0)}}

Next ==
  \/ \E raw \in RawQueries : ReceivePaginated(raw)
  \/ \E raw \in RawQueries : ReceiveHttp(raw)
  \/ \E raw \in RawQueries : ReceiveMcpList(raw)
  \/ \E raw \in RawQueries : ReceiveMcpGeo(raw)
  \/ \E fail \in BOOLEAN : DbValidate(fail)
  \/ \E fail \in BOOLEAN : DbCount(fail)
  \/ \E fail \in BOOLEAN : DbData(fail)
  \/ \E r \in VolatileRows : StoreInsert(r)
  \/ \E r \in VolatileRows : StoreDelete(r)
  \/ Respond

Spec == Init /\ [][Next]_vars

\* ------------------------------------------------------------------------
\* Several callers inside findAllPaginated at the same time.  Each call has
\* its own query object and its own builders (locals of the call); the
\* calls interleave at their await points, over an unchanging table.
\* ------------------------------------------------------------------------
ConcurrentQueries ==
  {MkQuery(f, poly, lim, None) :
     f \in {NoFilter,
            [NoFilter EXCEPT !.building_type = Some(Residential)],
            [NoFilter EXCEPT !.name = Some(<<"a", "B">>)]},
     poly \in PolygonInputs,
     lim \in {None, Some(1)}}

OtherVars ==
  <<store, nwrites, pc, path, query, inflight, events, countQ, dataQ,
    polyChecked, total, data, cntStore, datStore, result, error, logs>>

\* findAllPaginated is entered and runs to its first await: the polygon
\* validation if a polygon is given, the count query otherwise
CallEnter(c, raw) ==
  LET q == PaginatedDtoParse(raw) IN
  /\ calls[c].pc = "idle"
  /\ PaginatedDtoOk(raw)
  /\ calls' = [calls EXCEPT ![c] =
       IF TruthyText(q.polygon)
       THEN [IdleCall EXCEPT !.pc = "validate", !.query = q]
       ELSE [IdleCall EXCEPT !.pc = "count", !.query = q,
                             !.countQ = Some(ExecuteCountQuery(q))]]
  /\ UNCHANGED OtherVars

\* validateWktPolygon returns; executeCountQuery builds and sends its query
CallValidated(c) ==
  /\ calls[c].pc = "validate"
  /\ StGeomFromTextOk(Val(calls[c].query.polygon))
  /\ calls' = [calls EXCEPT ![c].pc = "count",
                            ![c].countQ = Some(ExecuteCountQuery(calls[c].query))]
  /\ UNCHANGED OtherVars

\* the count returns; executePaginatedDataQuery builds and sends its query
CallCounted(c) ==
  /\ calls[c].pc = "count"
  /\ calls' = [calls EXCEPT ![c].pc = "data",
                            ![c].total = Some(CountRows(Val(calls[c].countQ), store)),
                            ![c].dataQ = Some(ExecutePaginatedDataQuery(calls[c].query))]
  /\ UNCHANGED OtherVars

\* the rows return; the metadata is computed and the page is returned
CallFetched(c) ==
  /\ calls[c].pc = "data"
  /\ \E rows \in SelectRows(Val(calls[c].dataQ), store) :
       calls' = [calls EXCEPT ![c].pc = "done",
                              ![c].result =
                                Some([records |-> rows,
                                      meta |-> CalculatePaginationMeta(
                                                 Val(calls[c].total),
                                                 Val(calls[c].query.limit),
                                                 Val(calls[c].query.offset))])]
  /\ UNCHANGED OtherVars

\* the caller has its page; the call's objects are discarded
CallReturn(c) ==
  /\ calls[c].pc = "done"
  /\ calls' = [calls EXCEPT ![c] = IdleCall]
  /\ UNCHANGED OtherVars

NextConcurrent ==
  \/ \E c \in Clients, raw \in ConcurrentQueries : CallEnter(c, raw)
  \/ \E c \in Clients : CallValidated(c)
  \/ \E c \in Clients : CallCounted(c)
  \/ \E c \in Clients : CallFetched(c)
  \/ \E c \in Clients : CallReturn(c)

SpecConcurrent == Init /\ [][NextConcurrent]_vars

\* ------------------------------------------------------------------------
\* Callers of the non-paginated findAll, over an unchanging table
\* ------------------------------------------------------------------------
ListQueries ==
  {MkQuery(f, poly, None, None) :
     f \in FilterInputs, poly \in PolygonInputs \cup {Some(PolyShort)}}

\* findAll is entered and runs to its first await: the polygon validation if
\* a polygon is given, the data query otherwise
ListEnter(c, q) ==
  /\ calls[c].pc = "idle"
  /\ calls' = [calls EXCEPT ![c] =
       IF TruthyText(q.polygon)
       THEN [IdleCall EXCEPT !.pc = "validate", !.query = q]
       ELSE [IdleCall EXCEPT !.pc = "data", !.query = q,
                             !.dataQ = Some(FindAllList(q))]]
  /\ UNCHANGED OtherVars

\* validateWktPolygon returns or throws; on return the data query is built
\* and sent
ListValidated(c, fail) ==
  /\ calls[c].pc = "validate"
  /\ calls' = [calls EXCEPT ![c] =
       IF fail \/ ~StGeomFromTextOk(Val(calls[c].query.polygon))
       THEN [@ EXCEPT !.pc = "failed", !.error = "invalid_wkt"]
       ELSE [@ EXCEPT !.pc = "data", !.dataQ = Some(FindAllList(calls[c].query))]]
  /\ UNCHANGED OtherVars

\* the rows return and are handed to the caller, or the store fails and the
\* error is rethrown
ListFetched(c, fail) ==
  /\ calls[c].pc = "data"
  /\ IF fail
     THEN calls' = [calls EXCEPT ![c].pc = "failed", ![c].error = "store"]
     ELSE \E rows \in SelectRows(Val(calls[c].dataQ), store) :
            calls' = [calls EXCEPT ![c].pc = "done",
                                   ![c].result = Some([records |-> rows])]
  /\ UNCHANGED OtherVars

ListReturn(c) ==
  /\ calls[c].pc \in {"done", "failed"}
  /\ calls' = [calls EXCEPT ![c] = IdleCall]
  /\ UNCHANGED OtherVars

NextList ==
  \/ \E c \in Clients, q \in ListQueries : ListEnter(c, q)
  \/ \E c \in Clients, fail \in BOOLEAN : ListValidated(c, fail)
  \/ \E c \in Clients, fail \in BOOLEAN : ListFetched(c, fail)
  \/ \E c \in Clients : ListReturn(c)

SpecList == Init /\ [][NextList]_vars

\* ------------------------------------------------------------------------
\* Properties
\* ------------------------------------------------------------------------
ReqLimit == OrElse(query.limit, DefaultLimit)
ReqOffset == OrElse(query.offset, DefaultOffset)
Records == Val(result).records
Meta == Val(result).meta

\* a filter field counts as supplied when it carries a non-empty value
Supplied(o) == TruthyText(o)
NumSupplied(q) ==
  Cardinality({f \in {"cadastral_code", "municipality_code", "building_type",
                      "name", "address", "polygon"} : Supplied(q[f])})

\* the matching policy of the engine, row by row
RowSatisfies(q, row) ==
  /\ row.visible = TRUE
  /\ Supplied(q.cadastral_code) => row.cadastral_code = Val(q.cadastral_code)
  /\ Supplied(q.municipality_code) => row.municipality_code = Val(q.municipality_code)
  /\ Supplied(q.building_type) => row.building_type = Val(q.building_type)
  /\ Supplied(q.name) =>
       IsSome(row.name) /\ ILike(Val(row.name), <<"%">> \o Val(q.name) \o <<"%">>)
  /\ Supplied(q.address) => ILike(row.address, <<"%">> \o Val(q.address) \o <<"%">>)
  /\ Supplied(q.polygon) => IsSome(row.geom) /\ StIntersects(Val(row.geom), Val(q.polygon))

MatchingRows(q, S) == {r \in S : RowSatisfies(q, Row(r))}

\* C1: for every successful call, meta.total is the number of rows that were
\* in the store when the count query ran and that are visible and satisfy
\* every supplied filter, whatever limit and offset are
Thm_C1 ==
  pc = "done" => Meta.total = Cardinality(MatchingRows(query, cntStore))

\* a successful filtered call whose total is neither the table size nor the
\* page size
Wit_C1 ==
  /\ pc = "done"
  /\ NumSupplied(query) >= 1
  /\ Meta.total > 0
  /\ Meta.total # Cardinality(cntStore)
  /\ Meta.total # Len(Records)

\* C2: for valid pagination inputs, hasNext = (offset + limit < total) and
\* hasPrevious = (offset > 0), with total the result of the count query and
\* not the number of records returned
Thm_C2 ==
  (pc = "done" /\ ReqLimit \in MinLimit..MaxLimit /\ ReqOffset >= 0) =>
     /\ Meta.hasNext = (ReqOffset + ReqLimit < Val(total))
     /\ Meta.hasPrevious = (ReqOffset > 0)

\* a page shorter than limit whose hasNext is nevertheless true
Wit_C2 ==
  /\ pc = "done"
  /\ ReqLimit \in MinLimit..MaxLimit
  /\ Len(Records) < ReqLimit
  /\ Meta.hasNext = TRUE

\* the predicate fragments a request must compile to
ExpectedFragments(q) ==
  {FVisible}
  \cup (IF Supplied(q.cadastral_code) THEN {FCadastral} ELSE {})
  \cup (IF Supplied(q.municipality_code) THEN {FMunicipality} ELSE {})
  \cup (IF Supplied(q.building_type) THEN {FType} ELSE {})
  \cup (IF Supplied(q.name) THEN {FName} ELSE {})
  \cup (IF Supplied(q.address) THEN {FAddress} ELSE {})
  \cup (IF Supplied(q.polygon) THEN {FPolygon} ELSE {})

VisibilityFirst(qb) ==
  Len(qb.where) >= 1 /\ qb.where[1] = FVisible /\ qb.params[1] = PTrue

\* C3: within one call the count query and the data query carry the same
\* ordered fragments and parameter values, visibility first and then one
\* fragment per supplied filter; the count query has no ORDER BY, LIMIT or
\* OFFSET, and the data query differs only by columns, ORDER BY and window
Thm_C3 ==
  (IsSome(countQ) /\ IsSome(dataQ)) =>
     LET c == Val(countQ)
         d == Val(dataQ)
     IN  /\ c.where = d.where
         /\ c.params = d.params
         /\ VisibilityFirst(c)
         /\ Range(c.where) = ExpectedFragments(query)
         /\ Len(c.where) = Cardinality(ExpectedFragments(query))
         /\ c.order = "" /\ c.limit = None /\ c.offset = None
         /\ d.order = OrderCreatedDesc
         /\ [d EXCEPT !.select = c.select, !.order = "", !.limit = None,
                      !.offset = None] = c

\* both queries of one call issued with three or more fragments
Wit_C3 ==
  /\ IsSome(countQ) /\ IsSome(dataQ)
  /\ Len(Val(countQ).where) >= 3
  /\ FPolygon \in Range(Val(dataQ).where)

\* C4: every count and data query starts with visible = true, bound by the
\* engine, and no row with visible # true is ever returned
Thm_C4 ==
  /\ IsSome(countQ) => VisibilityFirst(Val(countQ))
  /\ IsSome(dataQ) => VisibilityFirst(Val(dataQ))
  /\ IsSome(data) => \A i \in 1..Len(Val(data)) : Row(Val(data)[i]).visible = TRUE
  /\ IsSome(result) => \A i \in 1..Len(Records) : Row(Records[i]).visible = TRUE

\* a page was returned while a hidden row matching every supplied filter was
\* in the store
Wit_C4 ==
  /\ pc = "done"
  /\ Len(Records) > 0
  /\ \E r \in datStore :
       /\ Row(r).visible = FALSE
       /\ RowSatisfies(query, [Row(r) EXCEPT !.visible = TRUE])

\* case-insensitive substring containment
ContainsCI(s, v) ==
  \E i \in 1..(Len(s) - Len(v) + 1) :
     SubSeq(LowerSeq(s), i, i + Len(v) - 1) = LowerSeq(v)

RecordSatisfiesAll(q, row) ==
  /\ Supplied(q.cadastral_code) => row.cadastral_code = Val(q.cadastral_code)
  /\ Supplied(q.municipality_code) => row.municipality_code = Val(q.municipality_code)
  /\ Supplied(q.building_type) => row.building_type = Val(q.building_type)
  /\ Supplied(q.name) => IsSome(row.name) /\ ContainsCI(Val(row.name), Val(q.name))
  /\ Supplied(q.address) => ContainsCI(row.address, Val(q.address))
  /\ Supplied(q.polygon) => IsSome(row.geom) /\ StIntersects(Val(row.geom), Val(q.polygon))

\* C5: when two or more filters are supplied, every returned record satisfies
\* all of them: equality for the codes and the type, case-insensitive
\* substring containment for name and address, intersection for the polygon
Claim_C5 ==
  (pc = "done" /\ NumSupplied(query) >= 2) =>
     \A i \in 1..Len(Records) : RecordSatisfiesAll(query, Row(Records[i]))

ValidWindow == IsSome(query.limit) /\ Val(query.limit) \in MinLimit..MaxLimit /\ ReqOffset >= 0
PageSize == Min(Val(query.limit), Max(0, Meta.total - ReqOffset))

Claim_C7 ==
  pc = "done" =>
     /\ Len(Records) <= Meta.limit
     /\ Len(Records) <= Max(0, Meta.total - Meta.offset)

\* C8 as stated: when offset >= total the call succeeds with no records,
\* the real total and hasNext = false
Claim_C8 ==
  (pc = "done" /\ ReqOffset >= Meta.total) =>
     /\ Records = <<>>
     /\ Meta.hasNext = FALSE
     /\ Meta.total = Cardinality(MatchingRows(query, cntStore))

\* C8 amended: over a store unchanged between the two queries, offset >= total
\* gives an empty page with the real total and hasNext = false; and once the
\* count is known, only a store failure can make such a call fail
Thm_C8 ==
  /\ (pc = "done" /\ ReqOffset >= Meta.total /\ cntStore = datStore) =>
        /\ Records = <<>>
        /\ Meta.hasNext = FALSE
        /\ Meta.total = Cardinality(MatchingRows(query, cntStore))
  /\ (pc = "failed" /\ IsSome(total) /\ ReqOffset >= Val(total)) => error = "store"

\* a successful call whose offset is at or beyond a positive total
Wit_C8 ==
  /\ pc = "done" /\ cntStore = datStore
  /\ Meta.total > 0
  /\ ReqOffset >= Meta.total
  /\ Records = <<>>

Spatial(qo) == IsSome(qo) /\ FPolygon \in Range(Val(qo).where)

Pos(e) == {i \in 1..Len(events) : events[i] = e}
Before(a, b) == \A i \in Pos(b) : \E j \in Pos(a) : j < i
BothDoneBeforeMeta ==
  IsSome(result) => Pos(Done("count")) # {} /\ Pos(Done("data")) # {}

NumIssued(kind) == Cardinality(Pos(Issue(kind)))
StoreStatements == Cardinality({i \in 1..Len(events) : events[i][1] = "issue"})

\* C11 as stated: a successful call has sent exactly two statements to the
\* store, one count query and one data query, with or without a polygon
Claim_C11 ==
  pc = "done" =>
    /\ NumIssued("count") = 1
    /\ NumIssued("data") = 1
    /\ StoreStatements = 2

\* C11 amended: a successful call has sent exactly one count query and one
\* data query; findAllPaginated with a polygon has sent one more statement
\* before them, the SELECT ST_GeomFromText that validates the polygon, and no
\* other call sends a third statement
Thm_C11 ==
  pc = "done" =>
    /\ NumIssued("count") = 1
    /\ NumIssued("data") = 1
    /\ NumIssued("validate") =
         (IF path = "paginated" /\ TruthyText(query.polygon) THEN 1 ELSE 0)
    /\ StoreStatements = 2 + NumIssued("validate")

Wit_C11 ==
  /\ pc = "done"
  /\ path = "paginated"
  /\ TruthyText(query.polygon)
  /\ StoreStatements = 3
  /\ NumSupplied(query) >= 2

FailedPhase == {k \in {"validate", "count", "data"} : Pos(Failed(k)) # {}}

ErrorDetails ==
  IF error = "validation:polygon" THEN ValidateWktPolygon(Val(query.polygon)) ELSE <<>>

\* the conditions of a closed polygon boundary: balanced parentheses, at least
\* four pairs, each pair two numbers, first pair equal to last pair
WellFormedPolygon(p) ==
  /\ Len(p) >= 6
  /\ p[2] = "(" /\ p[3] = "(" /\ p[Len(p) - 1] = ")" /\ p[Len(p)] = ")"
  /\ \A i \in 4..(Len(p) - 2) : p[i] \notin {"(", ")"}
  /\ LET pairs == SplitComma(CoordsStr(p)) IN
       /\ Len(pairs) >= 4
       /\ \A i \in 1..Len(pairs) :
            Len(pairs[i]) = 2 /\ pairs[i][1] \in Digits /\ pairs[i][2] \in Digits
       /\ pairs[1] = pairs[Len(pairs)]

\* the defect of each malformed polygon of the inputs
DefectOf(p) ==
  CASE p = PolyShort      -> "INSUFFICIENT_COORDINATES"
    [] p = PolyOpen       -> "UNCLOSED_POLYGON"
    [] p = PolyNaN        -> "INVALID_COORDINATE_VALUE"
    [] p = PolyPrefix     -> "INVALID_COORDINATE_VALUE"
    [] p = PolyUnbalanced -> "INVALID_WKT_FORMAT"
    [] OTHER              -> "NONE"

Finished == pc \in {"done", "failed"}
PaginationAccepted ==
  /\ OrElse(query.limit, DefaultLimit) \in MinLimit..MaxLimit
  /\ OrElse(query.offset, DefaultOffset) >= 0
MalformedCall ==
  /\ Finished
  /\ TruthyText(query.polygon)
  /\ Val(query.polygon) \in MalformedPolygons

Claim_C15 ==
  (polyChecked /\ TruthyText(query.polygon)) => WellFormedPolygon(Val(query.polygon))


\* C16 as stated: a call whose limit is outside [1,100] or whose offset is
\* negative, and which has no other defect, is rejected with a validation
\* error about pagination, which is not the error a bad polygon gets, and
\* nothing is sent to the store
Claim_C16 ==
  (/\ pc # "idle"
   /\ ~PaginationAccepted
   /\ path = "mcp_geo" => TruthyText(query.polygon)
   /\ TruthyText(query.polygon) => Val(query.polygon) = PolySquare
   /\ ValidateTextFilters(query) = <<>>) =>
    /\ pc = "failed"
    /\ error = "validation:pagination"
    /\ events = <<>>

\* C17 as stated: every data query sent to the store has a LIMIT in [1,100],
\* 20 when the caller gave none, and an OFFSET >= 0, 0 when the caller gave
\* none (a query without OFFSET skips nothing)
Claim_C17 ==
  IsSome(dataQ) =>
    /\ IsSome(Val(dataQ).limit)
    /\ Val(Val(dataQ).limit) \in MinLimit..MaxLimit
    /\ Val(Val(dataQ).limit) = OrElse(query.limit, DefaultLimit)
    /\ OrElse(Val(dataQ).offset, 0) >= 0
    /\ OrElse(Val(dataQ).offset, 0) = OrElse(query.offset, DefaultOffset)

\* the pages the store may answer the data query of this call with, over
\* the dataset the data query ran on, at OFFSET off
PagesAt(off) == SelectRows([Val(dataQ) EXCEPT !.offset = Some(off)], datStore)
StableDataset == cntStore = datStore /\ store = datStore

\* C18 as stated: over an unchanged dataset, the same call can only return
\* the page it returned: same records in the same order
Claim_C18 ==
  (pc = "done" /\ StableDataset) =>
    \A rows \in SelectRows(Val(dataQ), datStore) : rows = Records

\* C19 as stated: over a stable dataset, the page at offset 0 and the page
\* at offset limit share no record, and when total <= 2 * limit the two
\* pages together hold every matching record
Claim_C19 ==
  (/\ pc = "done"
   /\ StableDataset
   /\ IsSome(Val(dataQ).limit)
   /\ Val(Val(dataQ).limit) >= 1
   /\ OrElse(Val(dataQ).offset, 0) = 0) =>
    LET L == Val(Val(dataQ).limit) IN
    \A nxt \in PagesAt(L) :
      /\ Range(Records) \cap Range(nxt) = {}
      /\ Meta.total <= 2 * L =>
           Range(Records) \cup Range(nxt) = {r \in datStore : Matches(Val(dataQ), r)}

\* C20: when rows were written between the count query and the data query,
\* meta.total is still the number of rows that matched the filter when the
\* count query ran, whatever the data query saw
Thm_C20 ==
  (pc = "done" /\ cntStore # datStore) =>
    /\ Meta.total = Val(total)
    /\ Val(total) = Cardinality({r \in cntStore : RowSatisfies(query, Row(r))})

Wit_C20 ==
  /\ pc = "done"
  /\ path = "paginated"
  /\ cntStore # datStore
  /\ Meta.total # Cardinality(MatchingRows(query, datStore))
  /\ Len(Records) > Meta.total

\* ------------------------------------------------------------------------
\* Empty strings and the predicate list
\* ------------------------------------------------------------------------
EmptyText == Some(<<>>)
IssuedQueries ==
  (IF IsSome(countQ) THEN {Val(countQ)} ELSE {}) \cup
  (IF IsSome(dataQ) THEN {Val(dataQ)} ELSE {})
Occurrences(qb, frag) == Cardinality({i \in 1..Len(qb.where) : qb.where[i] = frag})
WithoutCadastral == [query EXCEPT !.cadastral_code = None]

\* C21 (as stated): a call whose cadastral_code is the empty string issues
\* queries that carry the equality predicate on cadastral_code with the
\* empty string as its value
Claim_C21 ==
  (pc # "idle" /\ query.cadastral_code = EmptyText) =>
     \A qb \in IssuedQueries :
        \E i \in 1..Len(qb.where) : qb.where[i] = FCadastral /\ qb.params[i] = <<>>

\* C21 (amended): an empty cadastral_code never becomes a predicate: the
\* controller rejects the call before any query, and the services issue
\* exactly the queries of the same request without the field
Thm_C21 ==
  (pc # "idle" /\ query.cadastral_code = EmptyText) =>
     IF path = "http"
     THEN /\ pc = "failed"
          /\ error \in {"validation:pagination", "validation:polygon", "validation:text"}
          /\ IssuedQueries = {}
     ELSE /\ IsSome(countQ) => countQ = Some(CountQueryFor(path, WithoutCadastral))
          /\ IsSome(dataQ) => dataQ = Some(DataQueryFor(path, WithoutCadastral))
          /\ \A qb \in IssuedQueries : Occurrences(qb, FCadastral) = 0

Wit_C21 ==
  /\ pc = "done"
  /\ path = "paginated"
  /\ query.cadastral_code = EmptyText
  /\ IsSome(countQ)
  /\ IsSome(dataQ)

\* the field a predicate fragment filters on
FieldValue(frag) ==
  CASE frag = FCadastral    -> query.cadastral_code
    [] frag = FMunicipality -> query.municipality_code
    [] frag = FType         -> query.building_type
    [] frag = FName         -> query.name
    [] frag = FAddress      -> query.address
    [] OTHER                -> query.polygon
FilterFragments == {FCadastral, FMunicipality, FType, FName, FAddress, FPolygon}

\* C22: every issued query has at most one predicate per filter field, and
\* no predicate for a field that is absent or the empty string
Thm_C22 ==
  \A qb \in IssuedQueries :
     \A frag \in FilterFragments :
        /\ Occurrences(qb, frag) <= 1
        /\ ~TruthyText(FieldValue(frag)) => Occurrences(qb, frag) = 0

Wit_C22 ==
  /\ pc = "done"
  /\ path = "mcp_list"
  /\ query.building_type = Some(Residential)
  /\ TruthyText(query.name)
  /\ Occurrences(Val(dataQ), FType) = 1
  /\ Occurrences(Val(dataQ), FName) = 1
  /\ Occurrences(Val(dataQ), FCadastral) = 0

\* ------------------------------------------------------------------------
\* The window reported in the metadata
\* ------------------------------------------------------------------------
CodedMeta == pc = "done" /\ path \in {"paginated", "http"}
EffectiveOffset == Min(ReqOffset, Max(0, Meta.total - 1))

Claim_C24 ==
  CodedMeta =>
     /\ Meta.offset = EffectiveOffset
     /\ Meta.hasNext = (EffectiveOffset + ReqLimit < Meta.total)
     /\ Meta.hasPrevious = (EffectiveOffset > 0)

\* ------------------------------------------------------------------------
\* Polygons in the log
\* ------------------------------------------------------------------------
LoggedPolygon(i) == logs[i][2]

\* C25 (as stated): no log event of a call carries the raw polygon text;
\* where a polygon is logged it is the placeholder
Claim_C25 ==
  \A i \in 1..Len(logs) :
     IsSome(LoggedPolygon(i)) => LoggedPolygon(i) = Some(WktPlaceholder)

\* ------------------------------------------------------------------------
\* Calls that run at the same time
\* ------------------------------------------------------------------------
\* the predicates and values a request stands for, in the order of
\* applyFilterConditions
ExpectedPredicates(q) ==
  <<<<FVisible, PTrue>>>>
  \o (IF Supplied(q.cadastral_code) THEN <<<<FCadastral, Val(q.cadastral_code)>>>> ELSE <<>>)
  \o (IF Supplied(q.municipality_code)
      THEN <<<<FMunicipality, Val(q.municipality_code)>>>> ELSE <<>>)
  \o (IF Supplied(q.building_type) THEN <<<<FType, Val(q.building_type)>>>> ELSE <<>>)
  \o (IF Supplied(q.name) THEN <<<<FName, <<"%">> \o Val(q.name) \o <<"%">>>>>> ELSE <<>>)
  \o (IF Supplied(q.address)
      THEN <<<<FAddress, <<"%">> \o Val(q.address) \o <<"%">>>>>> ELSE <<>>)
  \o (IF Supplied(q.polygon) THEN <<<<FPolygon, Val(q.polygon)>>>> ELSE <<>>)

Predicates(qb) == [i \in 1..Len(qb.where) |-> <<qb.where[i], qb.params[i]>>]

OwnQueries(c) ==
  /\ IsSome(calls[c].countQ) =>
        Predicates(Val(calls[c].countQ)) = ExpectedPredicates(calls[c].query)
  /\ IsSome(calls[c].dataQ) =>
        Predicates(Val(calls[c].dataQ)) = ExpectedPredicates(calls[c].query)

OwnResult(c) ==
  calls[c].pc = "done" =>
     LET r == Val(calls[c].result)
         q == calls[c].query
         matching == MatchingRows(q, store)
     IN  /\ r.meta.total = Cardinality(matching)
         /\ Range(r.records) \subseteq matching
         /\ Len(r.records) = Min(Val(q.limit), Max(0, Cardinality(matching) - Val(q.offset)))

\* C26: while calls run at the same time in any interleaving, the predicates
\* and values of each call's queries are those of its own request, and each
\* call's page and total are those of its own request over the table
Thm_C26 == \A c \in Clients : OwnQueries(c) /\ OwnResult(c)

\* two calls with different filters in flight together, one past its count
\* and one about to receive its page, then both done
Wit_C26 ==
  /\ calls["a"].pc = "done"
  /\ calls["b"].pc = "data"
  /\ NumSupplied(calls["a"].query) >= 1
  /\ NumSupplied(calls["b"].query) >= 1
  /\ calls["a"].query.building_type # calls["b"].query.building_type
  /\ Val(calls["a"].result).records # <<>>
  /\ Val(calls["b"].total) > 0

\* ------------------------------------------------------------------------
\* Order of the controller's checks
\* ------------------------------------------------------------------------
\* C27 (as stated): a call at the controller with a polygon its validator
\* rejects and with an invalid limit or offset is answered with the polygon
\* validation error
Claim_C27 ==
  (/\ MalformedCall
   /\ path = "http"
   /\ ValidateWktPolygon(Val(query.polygon)) # <<>>
   /\ ~PaginationAccepted) =>
     /\ pc = "failed"
     /\ error = "validation:polygon"

\* ------------------------------------------------------------------------
\* Store failures while the polygon is validated
\* ------------------------------------------------------------------------
\* C28 (as stated): a call whose well-formed polygon could not be validated
\* because the validation statement failed at the store does not end with
\* the invalid-polygon error
Claim_C28 ==
  (/\ pc = "failed"
   /\ "validate" \in FailedPhase
   /\ TruthyText(query.polygon)
   /\ WellFormedPolygon(Val(query.polygon))
   /\ StGeomFromTextOk(Val(query.polygon))) =>
     error # "invalid_wkt"

\* ------------------------------------------------------------------------
\* Validation before the service
\* ------------------------------------------------------------------------
ControllerChecks == {"validation:pagination", "validation:polygon", "validation:text"}
ServiceTraces ==
  {"findAll()", "findByPolygon()", "countTotal()", "countTotalByPolygon()"}
ServiceEntered ==
  \E i \in 2..Len(logs) : logs[i][1] \in ServiceTraces
AllChecksPass ==
  /\ ValidatePaginationParameters(query.limit, query.offset) = <<>>
  /\ TruthyText(query.polygon) => ValidateWktPolygon(Val(query.polygon)) = <<>>
  /\ ValidateTextFilters(query) = <<>>

\* C29: a call at the controller that fails one of its three checks
\* (pagination, polygon, text filters) enters no service method and sends
\* nothing to the store; a call that has entered a service method or sent a
\* query has passed all three checks
Thm_C29 ==
  (pc # "idle" /\ path = "http") =>
     /\ ~AllChecksPass =>
          /\ pc = "failed"
          /\ error \in ControllerChecks
          /\ events = <<>>
          /\ IssuedQueries = {}
          /\ ~ServiceEntered
     /\ (events # <<>> \/ IssuedQueries # {} \/ ServiceEntered) => AllChecksPass

\* a call rejected for its text filter alone, and nothing was sent
Wit_C29 ==
  /\ pc = "failed"
  /\ path = "http"
  /\ error = "validation:text"
  /\ ValidatePaginationParameters(query.limit, query.offset) = <<>>
  /\ TruthyText(query.polygon)
  /\ events = <<>>
  /\ Len(logs) = 2

\* ------------------------------------------------------------------------
\* The non-paginated list
\* ------------------------------------------------------------------------
CreatedDescending(rows) ==
  \A i, j \in 1..Len(rows) :
     i < j => Row(rows[i]).created_at >= Row(rows[j]).created_at

\* C30 (as stated): the non-paginated findAll returns every visible row
\* that satisfies all supplied filters, each once, newest first
Claim_C30 ==
  \A c \in Clients :
     calls[c].pc = "done" =>
        LET rows == Val(calls[c].result).records
            matching == MatchingRows(calls[c].query, store)
        IN  /\ Range(rows) = matching
            /\ Len(rows) = Cardinality(matching)
            /\ CreatedDescending(rows)

====
